---- MODULE Spec2Model ----
(***************************************************************************)
(* Model of the ingestion pipeline of tube-engine: the Catalog Writer      *)
(* (BaseIndexer.index_content), the Run Coordinator (BaseIndexer.run), the *)
(* Scheduler (IndexingScheduler.run_indexer / run_all_indexers), the       *)
(* direct catalog write (SearchService.create_content) and the collectors' *)
(* fetch_content / parse_content functions.                                *)
(***************************************************************************)
EXTENDS Integers, Sequences, FiniteSets, TLC

\* ------------------------------------------------------------------ bounds
NumUrls == 2        \* distinct non-empty source_url values
NumAgents == 2      \* distinct agent_id_external values
MaxRecords == 3     \* raw records fetched in total, over all runs
MaxRecordsAll == 1  \* the same, over the runs of one run_all_indexers call
MaxClock == 2       \* clock ticks, one per run_indexer call
MaxDirect == 1      \* POST /content calls
MaxFaults == 2      \* injected failures (fetch, statement, commit, rollback)
MaxSub == 3         \* records in one upstream response
MaxLimit == 5       \* largest limit argument of fetch_content
MaxRecordsJob == 1  \* the same, over the runs of the scheduled jobs
MaxCalls == 3       \* start() and stop() calls
MaxConcItems == 1   \* items one of two concurrent runs ingests
NumConcUrls == 1    \* distinct non-empty source_url values of those items
MaxRecordsLive == 2 \* raw records fetched over the runs checked for termination
MaxTags == 12       \* entries of the tag list of an upstream record

\* ------------------------------------------------------------- value sets
NoUrl == 0          \* source_url None or "" (falsy in index_content)
Urls == 0..NumUrls
AgentIds == 1..NumAgents
None == 0           \* last_run.get(platform) when the key is missing

\* ContentCreate, reduced to the dedup key and the agent join key
Items == [source_url : Urls, agent_id_external : AgentIds]

\* a raw record, named by what parse_content does with it
RawItem(u, a) == [kind |-> "item", source_url |-> u, agent_id_external |-> a]
RawAbsent == [kind |-> "absent", source_url |-> NoUrl, agent_id_external |-> 1]
RawThrows == [kind |-> "throws", source_url |-> NoUrl, agent_id_external |-> 1]
RawRecords == {RawItem(u, a) : u \in Urls, a \in AgentIds} \cup {RawAbsent, RawThrows}

SeqsUpTo(S, n) == UNION {[1..k -> S] : k \in 0..n}

\* the key of an agent_contents row
Row(c) == <<c.source_url, c.agent_id_external>>
Rows == Urls \X AgentIds

\* the collector table without the moltbook entry
Registered_short == {"github", "huggingface", "civitai", "youtube", "reddit",
                     "arxiv", "dynamic", "websearch"}

\* --------------------------------------------------------------- scheduler
\* IndexingScheduler.get_indexer: the registered platform ids
Registered == {"github", "huggingface", "civitai", "youtube", "reddit",
               "arxiv", "dynamic", "moltbook", "websearch"}

\* an unknown id served by a default collector
get_indexer_default(platform) == IF platform \in Registered THEN platform ELSE "github"

get_indexer(platform) == IF platform \in Registered THEN platform ELSE "None"

\* run_all_indexers: the fixed ordered list
platforms == <<"websearch", "dynamic", "github", "huggingface", "civitai",
               "reddit", "arxiv">>

\* platform ids the on-demand caller asks for
Requested == {"github", "tiktok"}

VARIABLES
    contents,     \* committed agent_contents rows: [Rows -> Nat], number of rows
    agents,       \* committed agents rows: agent_id -> total_creations
    tx_contents,  \* agent_contents as the run's session sees it
    tx_agents,    \* agents as the run's session sees it
    tx_ok,        \* FALSE once a flush failed: the session needs rollback()
    pc,           \* position of the current run_indexer call; "raised" when an
                  \* exception left run_indexer
    platform,     \* its platform argument
    since,        \* since = self.last_run.get(platform)
    raw_items,    \* the list fetch_content returned
    i,            \* index of the next raw item of the for loop
    stats,        \* self.stats of the indexer
    result,       \* what run_indexer returned
    last_run,     \* IndexingScheduler.last_run, a dict: platform -> time
    now,          \* datetime.utcnow()
    n_direct,     \* number of POST /content calls so far
    n_fetched,    \* number of raw records fetched so far
    n_faults,     \* number of injected failures so far
    caller,       \* who awaits run_indexer: "trigger" or "run_all"
    ra_pc,        \* position of run_all_indexers
    ra_i,         \* index into platforms of its for loop
    results,      \* its results dict
    ra_paused,    \* asyncio.sleep(2) was awaited after its latest run_indexer call
    \* history, read by the properties only
    outcomes,     \* outcome of each processed raw item of the current run
    fetch_raised, \* fetch_content raised in the current run
    commit_raised,\* db.commit() raised in the current run
    flush_failed, \* a statement of index_content raised in the current run
    rollback_raised, \* db.rollback() raised in the current run
    contents_before, \* contents when the current run started
    agents_before,   \* agents when the current run started
    wm_before,    \* last_run[platform] when the current run started
    fetched_at,   \* now when fetch_content of the current run was awaited
    written,      \* rows committed by the previous run, nothing written since
    ra_raised,    \* platforms of this run_all whose run raised
    ra_committed, \* rows committed by the runs of this run_all
    \* lifecycle of the scheduler
    running,      \* IndexingScheduler.running
    sched_running,\* self.scheduler (AsyncIOScheduler) is started
    jobs,         \* its job store: job -> number of registrations
    n_calls,      \* number of start() and stop() calls so far
    last_call,    \* the latest of them: "none", "start" or "stop"
    \* two run_indexer calls in progress at once, each with its own session
    c_pc,         \* task -> position of its run_indexer call
    c_platform,   \* task -> platform argument
    c_since,      \* task -> since
    c_items,      \* task -> the items parse_content made of its fetched list
    c_i,          \* task -> index of the next item
    c_rows,       \* task -> agent_contents rows added in its session
    c_agents,     \* task -> agents in its session: agent_id -> total_creations
    c_created,    \* task -> agent_ids it inserted and has not committed
    c_ok,         \* task -> FALSE once a flush of its session failed
    c_stats,      \* task -> self.stats of its indexer
    agent_rows,   \* committed agents rows: agent_id -> number of rows
    \* a POST /content call in progress beside them
    d_pc,         \* "idle", "write" (agent read, row not yet committed) or "done"
    d_item,       \* its content argument
    d_total,      \* agent.total_creations as its session read it
    \* one call of a collector's fetch_content
    f_pc,         \* "off", "input" (arguments and upstream fixed) or "done"
    f_collector,  \* platform_id of the collector
    f_key,        \* YouTubeIndexer.api_key is set
    f_limit,      \* the limit argument
    f_resp,       \* what the upstream answers to each request, in order
    f_items,      \* the list fetch_content returned
    f_sent,       \* number of requests it sent (request k gets answer f_resp[k])
    \* one call of a collector's parse_content
    p_pc,         \* "off", "input" or "done"
    p_collector,  \* platform_id of the collector
    p_raw,        \* the raw_data argument
    p_result      \* what parse_content returned

runvars == <<contents, agents, tx_contents, tx_agents, tx_ok, pc, platform, since,
          raw_items, i, stats, result, last_run, now, n_direct, n_fetched, n_faults,
          caller, ra_pc,
          ra_i, results, ra_paused, outcomes, fetch_raised, commit_raised, flush_failed,
          rollback_raised, contents_before, agents_before, wm_before, fetched_at, written,
          ra_raised, ra_committed, running, sched_running, jobs, n_calls,
          last_call, c_pc, c_platform, c_since, c_items, c_i, c_rows, c_agents,
          c_created, c_ok, c_stats, agent_rows, d_pc, d_item, d_total>>
fvars == <<f_pc, f_collector, f_key, f_limit, f_resp, f_items, f_sent>>
pvars == <<p_pc, p_collector, p_raw, p_result>>
vars == <<runvars, fvars, pvars>>

dbvars == <<contents, agents>>
cntvars == <<n_direct, n_fetched, n_faults>>
txvars == <<tx_contents, tx_agents, tx_ok>>
ravars == <<ra_pc, ra_i, results, ra_raised, ra_committed, ra_paused>>
lvars == <<running, sched_running, jobs, n_calls, last_call>>
dvars == <<d_pc, d_item, d_total>>
cvars == <<c_pc, c_platform, c_since, c_items, c_i, c_rows, c_agents, c_created,
           c_ok, c_stats, agent_rows, dvars>>
histvars == <<fetch_raised, commit_raised, flush_failed, rollback_raised,
              contents_before, agents_before, wm_before>>

\* the two run_indexer calls that may be in progress at once
Tasks == 1..2

\* ---------------------------------------------------------------- helpers
RECURSIVE SumOver(_, _)
SumOver(f, S) == IF S = {} THEN 0
                 ELSE LET x == CHOOSE y \in S : TRUE
                      IN f[x] + SumOver(f, S \ {x})

\* number of agent_contents rows whose source_url is u
UrlCount(c, u) == SumOver(c, {r \in Rows : r[1] = u})
\* number of agent_contents rows whose agent is a
AgentCount(c, a) == SumOver(c, {r \in Rows : r[2] = a})

ZeroStats == [indexed |-> 0, skipped |-> 0, errors |-> 0]
StatsResult(s) == [kind |-> "stats", indexed |-> s.indexed, skipped |-> s.skipped,
                   errors |-> s.errors]
ErrorResult == [kind |-> "error", indexed |-> 0, skipped |-> 0, errors |-> 0]
NoResult == [kind |-> "none", indexed |-> 0, skipped |-> 0, errors |-> 0]

\* --------------------------------------------------------- catalog writer
\* the duplicate check that never finds a row
content_exists_never(c, source_url) == FALSE

\* BaseIndexer.content_exists: scalar_one_or_none() is not None
content_exists(c, source_url) == UrlCount(c, source_url) >= 1

\* scalar_one_or_none() raises MultipleResultsFound on two or more rows
MultipleResultsFound(c, source_url) == UrlCount(c, source_url) >= 2

\* BaseIndexer.get_or_create_agent: select by agent_id, else add and flush
get_or_create_agent(ag, agent_id) ==
    IF agent_id \in DOMAIN ag THEN ag ELSE ag @@ (agent_id :> 0)

\* the counter set instead of incremented
IncCreations_set(total_creations) == 1

\* agent.total_creations = (agent.total_creations or 0) + 1
IncCreations(total_creations) == total_creations + 1

\* the rows after self.db.add(db_content)
AddContent(c, item) == [c EXCEPT ![Row(item)] = @ + 1]

\* the duplicate check made for every item
HasUrl_always(source_url) == TRUE

\* "if content.source_url and ...": None and "" are falsy, the duplicate
\* check is made for a non-empty source_url only
HasUrl(source_url) == source_url # NoUrl

\* a duplicate whose agent is looked up and created before the check returns
OnDuplicate_create(ag, agent_id) == get_or_create_agent(ag, agent_id)

\* the duplicate branch of index_content returns None before
\* get_or_create_agent is called: the agents stay as they are
OnDuplicate(ag, agent_id) == ag

\* BaseIndexer.index_content on the session view (c, ag, ok); dbfail says that
\* a statement of this call raises (a failed flush leaves the session unusable
\* until rollback(): every later statement raises PendingRollbackError)
index_content(c, ag, ok, st, item, dbfail) ==
    IF ~ok \/ dbfail THEN
        [outcome |-> "error", c |-> c, ag |-> ag, ok |-> FALSE,
         st |-> [st EXCEPT !.errors = @ + 1]]
    ELSE IF HasUrl(item.source_url) /\ MultipleResultsFound(c, item.source_url) THEN
        [outcome |-> "error", c |-> c, ag |-> ag, ok |-> ok,
         st |-> [st EXCEPT !.errors = @ + 1]]
    ELSE IF HasUrl(item.source_url) /\ content_exists(c, item.source_url) THEN
        [outcome |-> "skipped", c |-> c,
         ag |-> OnDuplicate(ag, item.agent_id_external), ok |-> ok,
         st |-> [st EXCEPT !.skipped = @ + 1]]
    ELSE
        LET ag1 == get_or_create_agent(ag, item.agent_id_external)
            a == item.agent_id_external
        IN [outcome |-> "written",
            c |-> AddContent(c, item),
            ag |-> [ag1 EXCEPT ![a] = IncCreations(ag1[a])],
            ok |-> ok,
            st |-> [st EXCEPT !.indexed = @ + 1]]

\* SearchService.create_content: no duplicate check, agent created and
\* committed by create_agent when missing, then the row and the counter
create_content_rows(c, item) == AddContent(c, item)
create_content_agents(ag, item) ==
    LET ag1 == get_or_create_agent(ag, item.agent_id_external)
        a == item.agent_id_external
    IN [ag1 EXCEPT ![a] = IncCreations(ag1[a])]

\* a flush that makes the rows of the session the committed ones
flush_commit(committed, session) == session

\* await self.db.flush() and the autoflush of a select send the pending rows
\* inside the transaction of the session: the committed rows stay as they are
flush(committed, session) == committed

\* --------------------------------------------------------- run coordinator
\* the loop left at the first record that raises
ContinueAfterError_abort(idx, n) == n + 1
\* a None from parse_content counted as skipped
OnAbsent_skipped(st) == [st EXCEPT !.skipped = @ + 1]

\* the error counted on top of a skip
OnParseError_skipped(st) == [st EXCEPT !.errors = @ + 1, !.skipped = @ + 1]

\* the except clause of the for loop counts the error ...
OnParseError(st) == [st EXCEPT !.errors = @ + 1]
\* ... and the loop goes on with the next raw item
ContinueAfterError(idx, n) == idx + 1
\* parse_content returned None: "if content:" is false, nothing is done
OnAbsent(st) == st

\* lists fetch_content may return to run()
FetchLists(who) ==
    SeqsUpTo(RawRecords,
             (IF who = "run_all" THEN MaxRecordsAll
              ELSE IF who = "job" THEN MaxRecordsJob
              ELSE IF who = "await" THEN MaxRecordsLive
              ELSE MaxRecords) - n_fetched)

\* the rows whose outcome in the finished run is "written"
WrittenRows == {Row(raw_items[j]) : j \in {k \in 1..Len(outcomes) : outcomes[k] = "written"}}

\* self.last_run.get(platform)
last_run_get(lr, p) == IF p \in DOMAIN lr THEN lr[p] ELSE None

InitRun ==
    /\ contents = [r \in Rows |-> 0]
    /\ agents = <<>>
    /\ tx_contents = [r \in Rows |-> 0]
    /\ tx_agents = <<>>
    /\ tx_ok = TRUE
    /\ pc = "idle"
    /\ platform = "None"
    /\ since = None
    /\ raw_items = <<>>
    /\ i = 1
    /\ stats = ZeroStats
    /\ result = NoResult
    /\ last_run = [p \in {} |-> None]
    /\ now = 0
    /\ n_direct = 0
    /\ n_fetched = 0
    /\ n_faults = 0
    /\ caller = "none"
    /\ ra_pc = "idle"
    /\ ra_i = 1
    /\ results = [p \in {} |-> NoResult]
    /\ ra_paused = FALSE
    /\ outcomes = <<>>
    /\ fetch_raised = FALSE
    /\ commit_raised = FALSE
    /\ flush_failed = FALSE
    /\ rollback_raised = FALSE
    /\ contents_before = [r \in Rows |-> 0]
    /\ agents_before = <<>>
    /\ wm_before = None
    /\ fetched_at = None
    /\ written = {}
    /\ ra_raised = {}
    /\ ra_committed = [r \in Rows |-> 0]
    /\ running = FALSE
    /\ sched_running = FALSE
    /\ jobs = [j \in {} |-> 0]
    /\ n_calls = 0
    /\ last_call = "none"
    /\ c_pc = [t \in Tasks |-> "idle"]
    /\ c_platform = [t \in Tasks |-> "None"]
    /\ c_since = [t \in Tasks |-> None]
    /\ c_items = [t \in Tasks |-> <<>>]
    /\ c_i = [t \in Tasks |-> 1]
    /\ c_rows = [t \in Tasks |-> [r \in Rows |-> 0]]
    /\ c_agents = [t \in Tasks |-> <<>>]
    /\ c_created = [t \in Tasks |-> {}]
    /\ c_ok = [t \in Tasks |-> TRUE]
    /\ c_stats = [t \in Tasks |-> ZeroStats]
    /\ agent_rows = [a \in AgentIds |-> 0]
    /\ d_pc = "idle"
    /\ d_item = [source_url |-> NoUrl, agent_id_external |-> 1]
    /\ d_total = 0

\* no fetch_content call under inspection
FetchOff ==
    /\ f_pc = "off"
    /\ f_collector = "None"
    /\ f_key = FALSE
    /\ f_limit = 1
    /\ f_resp = <<>>
    /\ f_items = <<>>
    /\ f_sent = 0

\* no parse_content call under inspection
ParseOff ==
    /\ p_pc = "off"
    /\ p_collector = "None"
    /\ p_raw = <<>>
    /\ p_result = <<>>

Init == InitRun /\ FetchOff /\ ParseOff

\* IndexingScheduler.run_indexer up to the await of indexer.run; the session
\* is made and the collector constructed before the try block, so an exception
\* of either leaves run_indexer
run_indexer(p, who) ==
    /\ pc = "idle"
    /\ now' = now + 1
    /\ platform' = p
    /\ caller' = who
    /\ raw_items' = <<>>
    /\ i' = 1
    /\ stats' = ZeroStats
    /\ outcomes' = <<>>
    /\ fetch_raised' = FALSE
    /\ commit_raised' = FALSE
    /\ flush_failed' = FALSE
    /\ rollback_raised' = FALSE
    /\ contents_before' = contents
    /\ agents_before' = agents
    /\ tx_contents' = contents
    /\ tx_agents' = agents
    /\ tx_ok' = TRUE
    /\ fetched_at' = None
    /\ \/ /\ n_faults < MaxFaults
          /\ n_faults' = n_faults + 1
          /\ result' = NoResult
          /\ pc' = "raised"
          /\ since' = None
          /\ wm_before' = None
       \/ /\ n_faults' = n_faults
          /\ IF get_indexer(p) = "None"
             THEN /\ result' = ErrorResult
                  /\ pc' = "returned"
                  /\ since' = None
                  /\ wm_before' = None
             ELSE /\ result' = NoResult
                  /\ pc' = "fetch"
                  /\ since' = last_run_get(last_run, p)
                  /\ wm_before' = last_run_get(last_run, p)
    /\ UNCHANGED <<dbvars, n_direct, n_fetched, last_run, written, fvars, pvars, lvars, cvars>>

\* trigger_index: the ids POST /admin/index/{platform} accepts
valid_platforms == {"websearch", "dynamic", "moltbook", "github", "huggingface",
                    "civitai", "reddit", "arxiv", "youtube"}

\* HTTPException(status_code=400)
Http400 == [kind |-> "http400", indexed |-> 0, skipped |-> 0, errors |-> 0]

\* a caller awaits run_indexer(platform): trigger_index with an id it accepts,
\* a scheduled job, or another user of the scheduler object
Trigger ==
    /\ ra_pc = "idle"
    /\ now < MaxClock
    /\ \E p \in Requested : run_indexer(p, "trigger")
    /\ UNCHANGED ravars

\* trigger_index with an id that is not in valid_platforms: HTTP 400, and
\* run_indexer is not called
TriggerInvalid ==
    /\ ra_pc = "idle"
    /\ pc = "idle"
    /\ now < MaxClock
    /\ now' = now + 1
    /\ \E p \in Requested \ valid_platforms : platform' = p
    /\ caller' = "http"
    /\ result' = Http400
    /\ pc' = "returned"
    /\ UNCHANGED <<dbvars, txvars, cntvars, since, raw_items, i, stats, last_run,
                   ravars, outcomes, histvars, fetched_at, written, fvars, pvars, lvars, cvars>>

\* raw_items = await self.fetch_content(since, limit)
Fetch ==
    /\ pc = "fetch"
    /\ \/ /\ n_faults < MaxFaults
          /\ n_faults' = n_faults + 1
          /\ fetch_raised' = TRUE
          /\ pc' = "rollback"
          /\ UNCHANGED <<raw_items, i, n_fetched>>
       \/ /\ \E b \in FetchLists(caller) : raw_items' = b
          /\ n_fetched' = n_fetched + Len(raw_items')
          /\ i' = 1
          /\ pc' = "process"
          /\ UNCHANGED <<fetch_raised, n_faults>>
    /\ fetched_at' = now
    /\ UNCHANGED <<dbvars, txvars, platform, since, stats, result, last_run, now,
                   n_direct, caller, ravars, outcomes, commit_raised, flush_failed,
                   rollback_raised, contents_before, agents_before, wm_before,
                   written,
                   fvars, pvars, lvars, cvars>>

\* one iteration of "for raw_item in raw_items"
ProcessRecord ==
    /\ pc = "process"
    /\ i <= Len(raw_items)
    /\ LET r == raw_items[i] IN
       \/ /\ r.kind = "throws"
          /\ stats' = OnParseError(stats)
          /\ i' = ContinueAfterError(i, Len(raw_items))
          /\ outcomes' = Append(outcomes, "throws")
          /\ UNCHANGED <<txvars, flush_failed, n_faults>>
       \/ /\ r.kind = "absent"
          /\ stats' = OnAbsent(stats)
          /\ i' = i + 1
          /\ outcomes' = Append(outcomes, "absent")
          /\ UNCHANGED <<txvars, flush_failed, n_faults>>
       \/ /\ r.kind = "item"
          /\ \E dbfail \in BOOLEAN :
               LET item == [source_url |-> r.source_url,
                            agent_id_external |-> r.agent_id_external]
                   res == index_content(tx_contents, tx_agents, tx_ok, stats,
                                        item, dbfail)
               IN /\ dbfail => (tx_ok /\ n_faults < MaxFaults)
                  /\ n_faults' = IF dbfail THEN n_faults + 1 ELSE n_faults
                  /\ tx_contents' = res.c
                  /\ tx_agents' = res.ag
                  /\ tx_ok' = res.ok
                  /\ stats' = res.st
                  /\ outcomes' = Append(outcomes, res.outcome)
                  /\ flush_failed' = (flush_failed \/ ~res.ok)
          /\ i' = i + 1
    /\ contents' = flush(contents, tx_contents')
    /\ agents' = flush(agents, tx_agents')
    /\ UNCHANGED <<pc, platform, since, raw_items, result, last_run, now,
                   n_direct, n_fetched, caller, ravars, fetch_raised, commit_raised,
                   rollback_raised, contents_before, agents_before, wm_before, fetched_at,
                   written,
                   fvars, pvars, lvars, cvars>>

\* what datetime.utcnow() may return after the run: the time of the fetch, or
\* a later one when processing and commit took time
utcnow == {now} \cup (IF now < MaxClock THEN {now + 1} ELSE {})

\* run() returned self.stats: run_indexer stores the watermark and returns
RunReturns ==
    /\ \E t \in utcnow :
         /\ now' = t
         /\ last_run' = (platform :> t) @@ last_run
    /\ result' = StatsResult(stats)
    /\ pc' = "returned"

\* await self.db.commit() after the loop; it raises on a session whose flush
\* failed, and it may raise on its own
Commit ==
    /\ pc = "process"
    /\ i > Len(raw_items)
    /\ \/ /\ tx_ok
          /\ contents' = tx_contents
          /\ agents' = tx_agents
          /\ RunReturns
          /\ UNCHANGED <<commit_raised, n_faults>>
       \/ /\ tx_ok
          /\ n_faults < MaxFaults
          /\ n_faults' = n_faults + 1
          /\ commit_raised' = TRUE
          /\ pc' = "rollback"
          /\ UNCHANGED <<dbvars, last_run, result, now>>
       \/ /\ ~tx_ok
          /\ commit_raised' = TRUE
          /\ pc' = "rollback"
          /\ UNCHANGED <<dbvars, last_run, result, n_faults, now>>
    /\ UNCHANGED <<txvars, platform, since, raw_items, i, stats, n_direct,
                   n_fetched, caller, ravars, outcomes, fetch_raised, flush_failed,
                   rollback_raised, contents_before, agents_before, wm_before, fetched_at,
                   written,
                   fvars, pvars, lvars, cvars>>

\* a rollback that never returns
Rollback_hangs == pc = "rollback" /\ UNCHANGED vars

\* the outer except of run(): await self.db.rollback(), then return self.stats;
\* a rollback that raises leaves run() and is caught by run_indexer
Rollback ==
    /\ pc = "rollback"
    /\ tx_contents' = contents
    /\ tx_agents' = agents
    /\ tx_ok' = TRUE
    /\ \/ /\ RunReturns
          /\ UNCHANGED <<rollback_raised, n_faults>>
       \/ /\ n_faults < MaxFaults
          /\ n_faults' = n_faults + 1
          /\ rollback_raised' = TRUE
          /\ result' = ErrorResult
          /\ pc' = "returned"
          /\ UNCHANGED <<last_run, now>>
    /\ UNCHANGED <<dbvars, platform, since, raw_items, i, stats, n_direct,
                   n_fetched, caller, ravars, outcomes, fetch_raised, commit_raised,
                   flush_failed, contents_before, agents_before, wm_before, fetched_at,
                   written,
                   fvars, pvars, lvars, cvars>>

\* the run's local state is dropped when its caller has the result
DropRun ==
    /\ pc' = "idle"
    /\ platform' = "None"
    /\ caller' = "none"
    /\ since' = None
    /\ raw_items' = <<>>
    /\ i' = 1
    /\ stats' = ZeroStats
    /\ result' = NoResult
    /\ outcomes' = <<>>
    /\ fetch_raised' = FALSE
    /\ commit_raised' = FALSE
    /\ flush_failed' = FALSE
    /\ rollback_raised' = FALSE
    /\ contents_before' = contents
    /\ agents_before' = agents
    /\ wm_before' = None
    /\ fetched_at' = None
    /\ written' = IF result.kind = "stats" /\ ~fetch_raised /\ ~commit_raised
                  THEN WrittenRows ELSE {}

\* trigger_index returns {"platform", "status", "result"}, or the framework
\* answers the exception that passed through it
TriggerReturns ==
    /\ pc \in {"returned", "raised"}
    /\ caller \in {"trigger", "http"}
    /\ DropRun
    /\ UNCHANGED <<dbvars, txvars, cntvars, last_run, now, ravars,
                   fvars, pvars, lvars, cvars>>

\* POST /content: SearchService.create_content; create_agent commits the new
\* agent on its own, so a failure of the last commit leaves that row behind
create_content ==
    /\ pc = "idle"
    /\ ra_pc = "idle"
    /\ n_direct < MaxDirect
    /\ n_direct' = n_direct + 1
    /\ \E item \in Items, ok \in BOOLEAN :
         /\ ~ok => n_faults < MaxFaults
         /\ n_faults' = IF ok THEN n_faults ELSE n_faults + 1
         /\ contents' = IF ok THEN create_content_rows(contents, item) ELSE contents
         /\ agents' = IF ok THEN create_content_agents(agents, item)
                      ELSE get_or_create_agent(agents, item.agent_id_external)
    /\ tx_contents' = contents'
    /\ tx_agents' = agents'
    /\ contents_before' = contents'
    /\ agents_before' = agents'
    /\ written' = {}
    /\ UNCHANGED <<tx_ok, pc, platform, since, raw_items, i, stats, result,
                   last_run, now, n_fetched, caller, ravars, outcomes, fetch_raised,
                   commit_raised, flush_failed, rollback_raised, wm_before, fetched_at,
                   fvars, pvars, lvars, cvars>>

\* ------------------------------------------------------ run_all_indexers
\* the rows the finished run wrote, as a number of rows per key
WrittenBag ==
    [r \in Rows |-> Cardinality({j \in 1..Len(outcomes) :
                       outcomes[j] = "written" /\ Row(raw_items[j]) = r})]

\* the loop of run_all_indexers left at the first error entry
RunAllNext_abort(idx, res) ==
    IF res.kind = "error" THEN Len(platforms) + 1 ELSE idx + 1

\* the for loop of run_all_indexers goes on with the next platform, whatever
\* run_indexer returned
RunAllNext(idx, res) == idx + 1

\* POST /admin/index-all: results = {}
RunAllStart ==
    /\ ra_pc = "idle"
    /\ pc = "idle"
    /\ ra_pc' = "loop"
    /\ ra_i' = 1
    /\ results' = [p \in {} |-> NoResult]
    /\ ra_raised' = {}
    /\ ra_committed' = [r \in Rows |-> 0]
    /\ ra_paused' = FALSE
    /\ UNCHANGED <<dbvars, txvars, cntvars, pc, platform, since, raw_items, i,
                   stats, result, last_run, now, caller, outcomes, histvars, fetched_at,
                   written,
                   fvars, pvars, lvars, cvars>>

\* results[platform] = await self.run_indexer(platform, limit=limit): the call
RunAllCall ==
    /\ ra_pc = "loop"
    /\ ra_i <= Len(platforms)
    /\ run_indexer(platforms[ra_i], "run_all")
    /\ UNCHANGED ravars

\* ... the assignment of what it returned, and asyncio.sleep(2); an exception
\* that left run_indexer is caught and stored as an error entry by the except
\* clause, which does not sleep
RunAllStore ==
    /\ pc \in {"returned", "raised"}
    /\ caller = "run_all"
    /\ results' = (platform :> (IF pc = "raised" THEN ErrorResult ELSE result))
                   @@ results
    /\ ra_i' = RunAllNext(ra_i, IF pc = "raised" THEN ErrorResult ELSE result)
    /\ ra_raised' = IF rollback_raised \/ pc = "raised"
                    THEN ra_raised \cup {platform} ELSE ra_raised
    /\ ra_committed' = IF result.kind = "stats" /\ ~fetch_raised /\ ~commit_raised
                       THEN [r \in Rows |-> ra_committed[r] + WrittenBag[r]]
                       ELSE ra_committed
    /\ ra_paused' = (pc = "returned")
    /\ DropRun
    /\ UNCHANGED <<dbvars, txvars, cntvars, last_run, now, ra_pc,
                   fvars, pvars, lvars, cvars>>

\* return results
RunAllReturn ==
    /\ ra_pc = "loop"
    /\ pc = "idle"
    /\ ra_i > Len(platforms)
    /\ ra_pc' = "done"
    /\ UNCHANGED <<dbvars, txvars, cntvars, pc, platform, since, raw_items, i,
                   stats, result, last_run, now, caller, ra_i, results, ra_raised,
                   ra_committed, ra_paused, outcomes, histvars, fetched_at, written,
                   fvars, pvars, lvars, cvars>>

Next ==
    \/ Trigger
    \/ TriggerInvalid
    \/ Fetch
    \/ ProcessRecord
    \/ Commit
    \/ Rollback
    \/ TriggerReturns
    \/ create_content

Spec == Init /\ [][Next]_vars

NextAll ==
    \/ RunAllStart
    \/ RunAllCall
    \/ Fetch
    \/ ProcessRecord
    \/ Commit
    \/ Rollback
    \/ RunAllStore
    \/ RunAllReturn

SpecAll == Init /\ [][NextAll]_vars

\* ------------------------------------------------- scheduler lifecycle
\* schedule_jobs: the jobs, named by the platform argument of run_indexer
\* (job id "<platform>_indexer")
JobArgs == <<"websearch", "dynamic", "moltbook", "github", "huggingface",
             "civitai", "reddit", "arxiv">>

\* add_job that registers the job once more when its id is in the store
add_job_again(store, id) ==
    IF id \in DOMAIN store THEN [store EXCEPT ![id] = @ + 1] ELSE (id :> 1) @@ store

\* self.scheduler.add_job(..., id=id, replace_existing=True): a job whose id
\* is in the store replaces the stored one
add_job(store, id) ==
    IF id \in DOMAIN store THEN [store EXCEPT ![id] = 1] ELSE (id :> 1) @@ store

\* schedule_jobs: the add_job calls in order, from job k on
RECURSIVE schedule_jobs(_, _)
schedule_jobs(store, k) ==
    IF k > Len(JobArgs) THEN store
    ELSE schedule_jobs(add_job(store, JobArgs[k]), k + 1)

\* IndexingScheduler.start
start ==
    /\ n_calls < MaxCalls
    /\ n_calls' = n_calls + 1
    /\ last_call' = "start"
    /\ IF ~running
       THEN /\ jobs' = schedule_jobs(jobs, 1)
            /\ sched_running' = TRUE
            /\ running' = TRUE
       ELSE UNCHANGED <<jobs, sched_running, running>>
    /\ UNCHANGED <<dbvars, txvars, cntvars, pc, platform, since, raw_items, i,
                   stats, result, last_run, now, caller, ravars, outcomes,
                   histvars, fetched_at, written, fvars, pvars, cvars>>

\* IndexingScheduler.stop; scheduler.shutdown() cancels the job that is in
\* progress: its run is abandoned where it stands, its session closed
\* without commit
stop ==
    /\ n_calls < MaxCalls
    /\ n_calls' = n_calls + 1
    /\ last_call' = "stop"
    /\ IF running
       THEN /\ sched_running' = FALSE
            /\ running' = FALSE
            /\ IF pc # "idle"
               THEN DropRun
               ELSE UNCHANGED <<pc, platform, caller, since, raw_items, i, stats,
                                result, outcomes, histvars, fetched_at, written>>
       ELSE UNCHANGED <<sched_running, running, pc, platform, caller, since,
                        raw_items, i, stats, result, outcomes, histvars, fetched_at, written>>
    /\ UNCHANGED <<dbvars, txvars, cntvars, last_run, now, ravars, jobs,
                   fvars, pvars, cvars>>

\* a registered job fires while the scheduler runs: run_indexer(*args)
JobFires ==
    /\ sched_running
    /\ ra_pc = "idle"
    /\ now < MaxClock
    /\ \E p \in DOMAIN jobs : run_indexer(p, "job")
    /\ UNCHANGED ravars

\* the job's run_indexer call is over
JobReturns ==
    /\ pc \in {"returned", "raised"}
    /\ caller = "job"
    /\ DropRun
    /\ UNCHANGED <<dbvars, txvars, cntvars, last_run, now, ravars,
                   fvars, pvars, lvars, cvars>>

NextLife ==
    \/ start
    \/ stop
    \/ JobFires
    \/ Fetch
    \/ ProcessRecord
    \/ Commit
    \/ Rollback
    \/ JobReturns

SpecLife == Init /\ [][NextLife]_vars

\* ------------------------------------------------- a run to its end
\* a caller awaits run_indexer of a registered platform ...
RunAwaited ==
    /\ ra_pc = "idle"
    /\ now < MaxClock
    /\ \E p \in Requested \cap Registered : run_indexer(p, "await")
    /\ UNCHANGED ravars

\* ... and has what it returned or raised
RunAwaitedReturns ==
    /\ pc \in {"returned", "raised"}
    /\ caller = "await"
    /\ DropRun
    /\ UNCHANGED <<dbvars, txvars, cntvars, last_run, now, ravars,
                   fvars, pvars, lvars, cvars>>

NextRun ==
    \/ RunAwaited
    \/ Fetch
    \/ ProcessRecord
    \/ Commit
    \/ Rollback
    \/ RunAwaitedReturns

\* every await of run() comes back: the request of fetch_content has a
\* timeout, the statements and the commit or rollback of the session answer
\* or raise, and the for loop is over a list
SpecRun ==
    /\ Init
    /\ [][NextRun]_vars
    /\ WF_vars(Fetch)
    /\ WF_vars(ProcessRecord)
    /\ WF_vars(Commit)
    /\ WF_vars(Rollback)

\* ---------------------------------------------------- two concurrent runs
\* Two run_indexer calls (two POST /admin/index/{platform} requests, or a
\* scheduled job and a request) interleave at their awaits. Each has its own
\* session; a session sees the committed rows and its own.
ConcPlatforms == {"github", "reddit"}
ConcUrls == 0..NumConcUrls
ConcItems == [source_url : ConcUrls, agent_id_external : AgentIds]

Other(t) == 3 - t

\* the variables of the single run
singlevars == <<txvars, pc, platform, since, raw_items, i, stats, result,
                n_direct, n_fetched, n_faults, caller, ravars, outcomes, histvars, fetched_at,
                written, lvars, fvars, pvars>>

\* the session of task t holds writes it has not committed
Dirty(t) == c_created[t] # {} \/ \E r \in Rows : c_rows[t][r] > 0

\* agent_contents as the session of task t sees it
SessionContents(t) == [r \in Rows |-> contents[r] + c_rows[t][r]]

\* agents as the session of task t sees it: its own objects, else the
\* committed rows
SessionAgents(t) == c_agents[t] @@ agents

\* the agent_id column without its unique index
agent_id_unique_off(n) == FALSE

\* Agent.agent_id, unique=True: an insert is refused when n rows with the
\* agent_id exist already
agent_id_unique(n) == n >= 1

\* run_indexer up to the await of indexer.run
CStart(t) ==
    /\ c_pc[t] = "idle"
    /\ \E p \in ConcPlatforms :
         /\ c_platform' = [c_platform EXCEPT ![t] = p]
         /\ c_since' = [c_since EXCEPT ![t] = last_run_get(last_run, p)]
    /\ now' = now + 1
    /\ c_pc' = [c_pc EXCEPT ![t] = "fetch"]
    /\ UNCHANGED <<dbvars, last_run, singlevars, dvars, c_items, c_i, c_rows, c_agents,
                   c_created, c_ok, c_stats, agent_rows>>

\* raw_items = await self.fetch_content(...), every record parsed to an item
CFetch(t) ==
    /\ c_pc[t] = "fetch"
    /\ \E b \in SeqsUpTo(ConcItems, MaxConcItems) :
         /\ c_items' = [c_items EXCEPT ![t] = b]
         /\ c_pc' = [c_pc EXCEPT ![t] = IF b = <<>> THEN "commit" ELSE "item"]
    /\ c_i' = [c_i EXCEPT ![t] = 1]
    /\ UNCHANGED <<dbvars, last_run, now, singlevars, dvars, c_platform, c_since, c_rows,
                   c_agents, c_created, c_ok, c_stats, agent_rows>>

\* the for loop goes on with the next item, or to the commit
Advance(t) ==
    /\ c_i' = [c_i EXCEPT ![t] = @ + 1]
    /\ c_pc' = [c_pc EXCEPT ![t] =
                   IF c_i[t] + 1 > Len(c_items[t]) THEN "commit" ELSE "item"]

\* the except clause of index_content; broken says that a flush failed
ErrorOut(t, broken) ==
    /\ c_stats' = [c_stats EXCEPT ![t].errors = @ + 1]
    /\ c_ok' = [c_ok EXCEPT ![t] = @ /\ ~broken]
    /\ Advance(t)
    /\ UNCHANGED <<c_rows, c_agents, c_created>>

\* self.db.add(db_content), the counter, stats["indexed"], with agent object
\* number a holding total_creations n
WriteContent(t, item, n) ==
    /\ c_rows' = [c_rows EXCEPT ![t] = AddContent(@, item)]
    /\ c_agents' = [c_agents EXCEPT ![t] =
                       (item.agent_id_external :> IncCreations(n)) @@ @]
    /\ c_stats' = [c_stats EXCEPT ![t].indexed = @ + 1]
    /\ Advance(t)

\* the select of get_or_create_agent: a found agent is returned and the
\* content written; else the insert and its flush follow
AgentSelect(t, item) ==
    LET a == item.agent_id_external IN
    IF a \in DOMAIN SessionAgents(t)
    THEN /\ WriteContent(t, item, SessionAgents(t)[a])
         /\ UNCHANGED <<c_created, c_ok>>
    ELSE /\ c_pc' = [c_pc EXCEPT ![t] = "flush"]
         /\ UNCHANGED <<c_i, c_rows, c_agents, c_created, c_ok, c_stats>>

\* the first await of index_content: the select of content_exists, or, for an
\* item without source_url, the select of get_or_create_agent. The select
\* flushes the rows the session has pending, which may fail while the other
\* session holds uncommitted writes (lock timeout)
CItem(t) ==
    /\ c_pc[t] = "item"
    /\ LET item == c_items[t][c_i[t]] IN
       \/ /\ ~c_ok[t]
          /\ ErrorOut(t, FALSE)
       \/ /\ c_ok[t]
          /\ Dirty(t)
          /\ Dirty(Other(t))
          /\ ErrorOut(t, TRUE)
       \/ /\ c_ok[t]
          /\ item.source_url # NoUrl
          /\ IF MultipleResultsFound(SessionContents(t), item.source_url)
             THEN ErrorOut(t, FALSE)
             ELSE IF content_exists(SessionContents(t), item.source_url)
             THEN /\ c_stats' = [c_stats EXCEPT ![t].skipped = @ + 1]
                  /\ Advance(t)
                  /\ UNCHANGED <<c_rows, c_agents, c_created, c_ok>>
             ELSE /\ c_pc' = [c_pc EXCEPT ![t] = "agent"]
                  /\ UNCHANGED <<c_i, c_rows, c_agents, c_created, c_ok, c_stats>>
       \/ /\ c_ok[t]
          /\ item.source_url = NoUrl
          /\ AgentSelect(t, item)
    /\ UNCHANGED <<dbvars, last_run, now, singlevars, dvars, c_platform, c_since, c_items,
                   agent_rows>>

\* the select of get_or_create_agent after content_exists returned False
CAgent(t) ==
    /\ c_pc[t] = "agent"
    /\ AgentSelect(t, c_items[t][c_i[t]])
    /\ UNCHANGED <<dbvars, last_run, now, singlevars, dvars, c_platform, c_since, c_items,
                   agent_rows>>

\* self.db.add(agent); await self.db.flush(): the INSERT. It is refused when
\* a committed row has the agent_id; while the other session holds an
\* uncommitted row with the agent_id it waits (no step) or gives up with an
\* error; while the other session holds other uncommitted writes it succeeds
\* or gives up with an error (database-wide write lock)
CFlush(t) ==
    /\ c_pc[t] = "flush"
    /\ LET item == c_items[t][c_i[t]]
           a == item.agent_id_external
           pending == IF a \in c_created[Other(t)] THEN 1 ELSE 0
       IN \/ /\ agent_id_unique(agent_rows[a]) \/ agent_id_unique(pending)
             /\ ErrorOut(t, TRUE)
          \/ /\ ~agent_id_unique(agent_rows[a])
             /\ ~agent_id_unique(pending)
             /\ Dirty(Other(t))
             /\ ErrorOut(t, TRUE)
          \/ /\ ~agent_id_unique(agent_rows[a])
             /\ ~agent_id_unique(pending)
             /\ c_created' = [c_created EXCEPT ![t] = @ \cup {a}]
             /\ WriteContent(t, item, 0)
             /\ UNCHANGED c_ok
    /\ UNCHANGED <<dbvars, last_run, now, singlevars, dvars, c_platform, c_since, c_items,
                   agent_rows>>

\* the session of task t without pending rows
ClearSession(t) ==
    /\ c_rows' = [c_rows EXCEPT ![t] = [r \in Rows |-> 0]]
    /\ c_agents' = [c_agents EXCEPT ![t] = <<>>]
    /\ c_created' = [c_created EXCEPT ![t] = {}]

\* the dictionary replaced by one that holds the entry of the run alone
CRunReturns_reset(t) ==
    /\ last_run' = (c_platform[t] :> now)
    /\ c_pc' = [c_pc EXCEPT ![t] = "done"]

\* run() returned self.stats: run_indexer stores the watermark and returns
CRunReturns(t) ==
    /\ last_run' = (c_platform[t] :> now) @@ last_run
    /\ c_pc' = [c_pc EXCEPT ![t] = "done"]

\* await self.db.commit(): it raises on a session whose flush failed, it may
\* raise while the other session holds uncommitted writes, else the rows of
\* the session become the committed ones
CCommit(t) ==
    /\ c_pc[t] = "commit"
    /\ \/ /\ ~c_ok[t] \/ (Dirty(t) /\ Dirty(Other(t)))
          /\ c_pc' = [c_pc EXCEPT ![t] = "rollback"]
          /\ UNCHANGED <<dbvars, last_run, agent_rows, c_rows, c_agents, c_created>>
       \/ /\ c_ok[t]
          /\ contents' = SessionContents(t)
          /\ agents' = SessionAgents(t)
          /\ agent_rows' = [a \in AgentIds |->
                              agent_rows[a] + (IF a \in c_created[t] THEN 1 ELSE 0)]
          /\ ClearSession(t)
          /\ CRunReturns(t)
    /\ UNCHANGED <<now, singlevars, dvars, c_platform, c_since, c_items, c_i, c_ok, c_stats>>

\* await self.db.rollback() in the outer except of run(), and the return
CRollback(t) ==
    /\ c_pc[t] = "rollback"
    /\ ClearSession(t)
    /\ c_ok' = [c_ok EXCEPT ![t] = TRUE]
    /\ CRunReturns(t)
    /\ UNCHANGED <<dbvars, now, singlevars, dvars, c_platform, c_since, c_items, c_i,
                   c_stats, agent_rows>>

\* the variables of the two runs
taskvars == <<c_pc, c_platform, c_since, c_items, c_i, c_rows, c_agents, c_created,
              c_ok, c_stats>>

\* SearchService.create_content up to its first write: the select of the
\* agent and, when there is none, create_agent, which inserts the agent and
\* commits. The insert is refused, or waits and gives up, when a session in
\* progress holds an uncommitted row with the agent_id; it may give up while a
\* session holds uncommitted writes. An exception ends the request
CDirectSelect ==
    /\ d_pc = "idle"
    /\ \E item \in ConcItems :
         LET a == item.agent_id_external
             pending == Cardinality({t \in Tasks : a \in c_created[t]})
         IN /\ d_item' = item
            /\ IF a \in DOMAIN agents
               THEN /\ d_total' = agents[a]
                    /\ d_pc' = "write"
                    /\ UNCHANGED <<agents, agent_rows>>
               ELSE \/ /\ agent_id_unique(agent_rows[a]) \/ agent_id_unique(pending)
                                                        \/ \E t \in Tasks : Dirty(t)
                       /\ d_pc' = "done"
                       /\ UNCHANGED <<agents, agent_rows, d_total>>
                    \/ /\ ~agent_id_unique(agent_rows[a])
                       /\ ~agent_id_unique(pending)
                       /\ agents' = get_or_create_agent(agents, a)
                       /\ agent_rows' = [agent_rows EXCEPT ![a] = @ + 1]
                       /\ d_total' = 0
                       /\ d_pc' = "write"
    /\ UNCHANGED <<contents, last_run, now, singlevars, taskvars>>

\* self.db.add(db_content), the counter, await self.db.commit(); the commit
\* may raise while a session holds uncommitted writes
CDirectCommit ==
    /\ d_pc = "write"
    /\ \/ /\ contents' = create_content_rows(contents, d_item)
          /\ agents' = (d_item.agent_id_external :> IncCreations(d_total)) @@ agents
       \/ /\ \E t \in Tasks : Dirty(t)
          /\ UNCHANGED <<contents, agents>>
    /\ d_pc' = "done"
    /\ UNCHANGED <<agent_rows, d_item, d_total, last_run, now, singlevars, taskvars>>

NextConc ==
    \/ \E t \in Tasks : CStart(t)
    \/ \E t \in Tasks : CFetch(t)
    \/ \E t \in Tasks : CItem(t)
    \/ \E t \in Tasks : CAgent(t)
    \/ \E t \in Tasks : CFlush(t)
    \/ \E t \in Tasks : CCommit(t)
    \/ \E t \in Tasks : CRollback(t)
    \/ CDirectSelect
    \/ CDirectCommit

SpecConc == Init /\ [][NextConc]_vars

\* ------------------------------------------------ collectors: fetch_content
\* AI_SUBREDDITS[:5], AI_KEYWORDS[:5], AI_SEARCH_TERMS[:5], SEARCH_QUERIES[:5]:
\* every aggregating collector issues at most five requests whose body it keeps
NumSub == 5

\* an upstream answer: the HTTP status (0: the request raised), the number of
\* records in the body, and for DuckDuckGo whether the body has an Abstract
Resp(status, n, abstract) == [status |-> status, n |-> n, abstract |-> abstract]

Responses(c) ==
    IF c = "websearch"
    THEN {Resp(200, n, ab) : n \in 0..MaxSub, ab \in BOOLEAN} \cup {Resp(0, 0, FALSE)}
    ELSE {Resp(200, n, FALSE) : n \in 0..MaxSub}
         \cup {Resp(403, 0, FALSE), Resp(429, 0, FALSE), Resp(0, 0, FALSE)}

\* the n records of the body of answer k
Recs(k, n) == [j \in 1..n |-> <<k, j>>]

Min(a, b) == IF a <= b THEN a ELSE b

\* the slice that keeps everything
Take_all(items, n) == items

\* items[:n] for n >= 0
Take(items, n) == SubSeq(items, 1, Min(n, Len(items)))

\* the loop left at the first request that raises
RECURSIVE LoopUntil_abort(_, _, _, _)
LoopUntil_abort(resp, k, items, stop_at) ==
    IF k > Len(resp) THEN items
    ELSE IF resp[k].status = 200
         THEN LoopUntil_abort(resp, k + 1, items \o Recs(k, resp[k].n), stop_at)
    ELSE IF resp[k].status \in {stop_at, 0} THEN items
    ELSE LoopUntil_abort(resp, k + 1, items, stop_at)

\* "for ... in X[:5]": a 200 body is appended whole, the status stop_at breaks the
\* loop, any other status and any exception go on with the next request
RECURSIVE LoopUntil(_, _, _, _)
LoopUntil(resp, k, items, stop_at) ==
    IF k > Len(resp) THEN items
    ELSE IF resp[k].status = 200
         THEN LoopUntil(resp, k + 1, items \o Recs(k, resp[k].n), stop_at)
    ELSE IF resp[k].status = stop_at THEN items
    ELSE LoopUntil(resp, k + 1, items, stop_at)

\* RedditIndexer.fetch_content
reddit_fetch_content(limit, resp) == Take(LoopUntil(resp, 1, <<>>, 429), limit)

\* GitHubIndexer.fetch_content
github_fetch_content(limit, resp) == Take(LoopUntil(resp, 1, <<>>, 403), limit)

\* YouTubeIndexer._fetch_via_rss: feed.entries[: limit // 5] of every feed that
\* answers 200, and "return items"
RECURSIVE fetch_via_rss(_, _, _, _)
fetch_via_rss(limit, resp, k, items) ==
    IF k > Len(resp) THEN items
    ELSE IF resp[k].status = 200
         THEN fetch_via_rss(limit, resp, k + 1,
                            items \o Take(Recs(k, resp[k].n), limit \div 5))
    ELSE fetch_via_rss(limit, resp, k + 1, items)

\* YouTubeIndexer.fetch_content
youtube_fetch_content(limit, resp, key) ==
    IF ~key THEN fetch_via_rss(limit, resp, 1, <<>>)
    ELSE Take(LoopUntil(resp, 1, <<>>, 403), limit)

\* the body of answer k when it is a 200, else nothing
Body(resp, k) == IF resp[k].status = 200 THEN Recs(k, resp[k].n) ELSE <<>>

\* DynamicWebIndexer._fetch_hackernews: story_ids[: limit * 2][:limit], every
\* story taken as AI-related; a failed first request gives nothing
fetch_hackernews(l, resp) == Take(Take(Body(resp, 1), l * 2), l)
\* DynamicWebIndexer._fetch_devto: two tags, each 200 body appended whole
fetch_devto(l, resp) == Body(resp, 2) \o Body(resp, 3)
\* DynamicWebIndexer._fetch_producthunt never fills items
fetch_producthunt(l, resp) == <<>>
\* DynamicWebIndexer._fetch_medium: two feeds, root.findall(".//item")[: limit // 2]
fetch_medium(l, resp) ==
    Take(Body(resp, 4), l \div 2) \o Take(Body(resp, 5), l \div 2)

\* DynamicWebIndexer.fetch_content: gather of the four, then items[:limit]
dynamic_fetch_content(limit, resp) ==
    Take(fetch_hackernews(limit \div 4, resp) \o fetch_devto(limit \div 4, resp)
         \o fetch_producthunt(limit \div 4, resp) \o fetch_medium(limit \div 4, resp),
         limit)

\* WebSearchIndexer._search_duckduckgo: RelatedTopics[:limit] and the Abstract
search_duckduckgo(l, resp, k) ==
    IF resp[k].status = 200
    THEN Take(Recs(k, resp[k].n), l) \o (IF resp[k].abstract THEN <<<<k, 0>>>> ELSE <<>>)
    ELSE <<>>

\* WebSearchIndexer._fetch_discovery_feeds is called after the "async with"
\* block closed the client: every request raises and is caught per feed
fetch_discovery_feeds(l) == <<>>

\* WebSearchIndexer.fetch_content
websearch_fetch_content(limit, resp) ==
    Take(search_duckduckgo(limit \div 5, resp, 1) \o search_duckduckgo(limit \div 5, resp, 2)
         \o search_duckduckgo(limit \div 5, resp, 3) \o search_duckduckgo(limit \div 5, resp, 4)
         \o search_duckduckgo(limit \div 5, resp, 5) \o fetch_discovery_feeds(limit \div 2),
         limit)

\* MoltbookIndexer._fetch_twitter_ai_posts: accounts[:3], one record per 200
fetch_twitter_ai_posts(resp) ==
    (IF resp[2].status = 200 THEN <<<<2, 1>>>> ELSE <<>>)
    \o (IF resp[3].status = 200 THEN <<<<3, 1>>>> ELSE <<>>)
    \o (IF resp[4].status = 200 THEN <<<<4, 1>>>> ELSE <<>>)

\* MoltbookIndexer.fetch_content: the posts, the Twitter and the Bluesky records
moltbook_fetch_content(limit, resp) ==
    Take(Body(resp, 1) \o fetch_twitter_ai_posts(resp) \o Body(resp, 5), limit)

\* HuggingFaceIndexer.fetch_content: the models, then the datasets, each in
\* its own try
huggingface_fetch_content(limit, resp) == Take(Body(resp, 1) \o Body(resp, 2), limit)

\* the collectors that merge several sub-sources
Aggregating == {"reddit", "dynamic", "websearch", "moltbook", "github", "youtube",
                "huggingface"}

InitFetch ==
    /\ InitRun
    /\ ParseOff
    /\ f_pc = "input"
    /\ f_collector \in Aggregating
    /\ f_key \in (IF f_collector = "youtube" THEN BOOLEAN ELSE {FALSE})
    /\ f_limit \in 1..MaxLimit
    /\ f_resp \in [1..NumSub -> Responses(f_collector)]
    /\ f_items = <<>>
    /\ f_sent = 0

\* number of requests the loop of LoopUntil sends: up to the first answer with
\* status stop_at, or all
RECURSIVE LoopSent(_, _, _)
LoopSent(resp, k, stop_at) ==
    IF k > Len(resp) THEN Len(resp)
    ELSE IF resp[k].status = stop_at THEN k
    ELSE LoopSent(resp, k + 1, stop_at)

\* fetch_content of collector c sent the first sent requests and returns items
FetchReturns(c, items, sent) ==
    /\ f_pc = "input"
    /\ f_collector = c
    /\ f_items' = items
    /\ f_sent' = sent
    /\ f_pc' = "done"
    /\ UNCHANGED <<f_collector, f_key, f_limit, f_resp, runvars, pvars>>

FetchReddit ==
    FetchReturns("reddit", reddit_fetch_content(f_limit, f_resp),
                 LoopSent(f_resp, 1, 429))
FetchGitHub ==
    FetchReturns("github", github_fetch_content(f_limit, f_resp),
                 LoopSent(f_resp, 1, 403))
\* the RSS loop has no break
FetchYouTube ==
    FetchReturns("youtube", youtube_fetch_content(f_limit, f_resp, f_key),
                 IF f_key THEN LoopSent(f_resp, 1, 403) ELSE Len(f_resp))
\* no loop of the other collectors has a break
FetchDynamic ==
    FetchReturns("dynamic", dynamic_fetch_content(f_limit, f_resp), Len(f_resp))
FetchWebSearch ==
    FetchReturns("websearch", websearch_fetch_content(f_limit, f_resp), Len(f_resp))
FetchMoltbook ==
    FetchReturns("moltbook", moltbook_fetch_content(f_limit, f_resp), Len(f_resp))

FetchHuggingFace ==
    FetchReturns("huggingface", huggingface_fetch_content(f_limit, f_resp), 2)

NextFetch ==
    \/ FetchReddit
    \/ FetchHuggingFace
    \/ FetchGitHub
    \/ FetchYouTube
    \/ FetchDynamic
    \/ FetchWebSearch
    \/ FetchMoltbook

SpecFetch == InitFetch /\ [][NextFetch]_vars

\* ------------------------------------- a run of a single-request collector
\* CivitaiIndexer.fetch_content: one request; the "items" of a 200 body, and
\* [] for any other status and for any exception
civitai_fetch_content(limit, resp) == Body(resp, 1)

\* ArxivIndexer.fetch_content: one request; the entries of a 200 body, and []
\* for any other status and for any exception
arxiv_fetch_content(limit, resp) == Body(resp, 1)

\* the collectors that issue one request per fetch_content
SingleRequest == {"civitai", "arxiv"}

InitSingle ==
    /\ InitRun
    /\ ParseOff
    /\ f_pc = "input"
    /\ f_collector \in SingleRequest
    /\ f_key = FALSE
    /\ f_limit \in 1..MaxLimit
    /\ f_resp \in [1..1 -> Responses(f_collector)]
    /\ f_items = <<>>
    /\ f_sent = 0

\* run_indexer(platform) for the collector under inspection
TriggerSingle ==
    /\ ra_pc = "idle"
    /\ f_pc = "input"
    /\ now < MaxClock
    /\ run_indexer(f_collector, "trigger")
    /\ UNCHANGED ravars

\* raw_items = await self.fetch_content(since, limit) with the fetch_content
\* of collector c, which returned items; what parse_content makes of each
\* record is left open
FetchInRun(c, items) ==
    /\ pc = "fetch"
    /\ platform = c
    /\ f_pc = "input"
    /\ f_collector = c
    /\ f_items' = items
    /\ f_sent' = 1
    /\ f_pc' = "done"
    /\ \E b \in [1..Len(items) -> RawRecords] : raw_items' = b
    /\ n_fetched' = n_fetched + Len(items)
    /\ i' = 1
    /\ pc' = "process"
    /\ fetched_at' = now
    /\ UNCHANGED <<dbvars, txvars, platform, since, stats, result, last_run, now,
                   n_direct, n_faults, caller, ravars, outcomes, histvars, written,
                   f_collector, f_key, f_limit, f_resp, pvars, lvars, cvars>>

FetchCivitai == FetchInRun("civitai", civitai_fetch_content(f_limit, f_resp))
FetchArxiv == FetchInRun("arxiv", arxiv_fetch_content(f_limit, f_resp))

NextSingle ==
    \/ TriggerSingle
    \/ FetchCivitai
    \/ FetchArxiv
    \/ ProcessRecord
    \/ Commit
    \/ Rollback
    \/ TriggerReturns

SpecSingle == InitSingle /\ [][NextSingle]_vars

\* ------------------------------------------------ collectors: parse_content
\* a raw record, reduced to what the parsers test: empty (raw_data is {}),
\* id (the identity or URL field of the source, "" when missing), title ("" when
\* missing), keyword (the title or the selftext/summary holds one of the
\* collector's keywords), src (the _source or _content_type tag that
\* fetch_content put on the record), tags (the length of the list the collector
\* makes its tags of: topics, tags, tag_list, categories, the words of _query,
\* link_flair_text as 0 or 1; NoTags when the key is missing), type (the
\* model type of a Civitai record, "" when missing) and host (the one of the
\* strings websearch looks for that the URL holds, "other" when none)
NoTags == -1
ModelTypes == {"", "Checkpoint", "LORA", "TextualInversion"}
Hosts == {"youtube.com", "vimeo.com", "github.com", "arxiv.org", "medium.com",
          "blog", "other"}

RawData ==
    {r \in [empty : BOOLEAN, id : {"", "x1"}, title : {"", "t1"},
            keyword : BOOLEAN, src : {"-"}, tags : NoTags..MaxTags,
            type : ModelTypes, host : Hosts] :
        r.empty => (r.id = "" /\ r.title = "" /\ ~r.keyword /\ r.tags = NoTags
                    /\ r.type = "" /\ r.host = "other")}

Sources(c) ==
    IF c = "dynamic" THEN {"hackernews", "devto", "medium", "unknown"}
    ELSE IF c = "moltbook" THEN {"moltbook", "bluesky", "twitter"}
    ELSE IF c = "huggingface" THEN {"model", "dataset"}
    ELSE {"-"}

\* the records collector c may be given
RawDataOf(c) == {[r EXCEPT !.src = x] : r \in RawData, x \in Sources(c)}

\* Optional[ContentCreate]; tags is the length of the tags list
NoContent == [kind |-> "None", source_url |-> "", title |-> "", content_type |-> "",
              tags |-> 0]
ContentCreate(source_url, title) ==
    [kind |-> "item", source_url |-> source_url, title |-> title,
     content_type |-> "", tags |-> 0]

\* the content_type= and tags= arguments of the ContentCreate call
Typed(res, content_type, tags) ==
    IF res.kind = "None" THEN res
    ELSE [res EXCEPT !.content_type = content_type, !.tags = tags]

\* the slices tags[:10] and categories[:5]
TagCap == 10
ArxivTagCap == 5

\* len(lst[:cap]) for a list of n entries
Sliced(n, cap) == IF n < cap THEN n ELSE cap

\* len(raw_data.get(key, default)) for a default of d entries
TagsOr(raw, d) == IF raw.tags = NoTags THEN d ELSE raw.tags

\* dict.get(key, default) of a field that is "" when missing
Get(value, default) == IF value = "" THEN default ELSE value

\* GitHubIndexer.parse_content
github_tags(raw) == IF TagsOr(raw, 0) = 0 THEN 2 ELSE Sliced(TagsOr(raw, 0), TagCap)
github_parse_content(raw) ==
    IF raw.empty THEN NoContent
    ELSE Typed(ContentCreate(Get(raw.id, ""), Get(raw.title, "unknown")),
               "code", github_tags(raw))

\* HuggingFaceIndexer.parse_content; content_type is the _content_type tag of
\* fetch_content, "model" or "dataset"
huggingface_tags(raw) ==
    IF Sliced(TagsOr(raw, 0), TagCap) = 0 THEN 2 ELSE Sliced(TagsOr(raw, 0), TagCap)
huggingface_parse_content(raw) ==
    IF raw.empty THEN NoContent
    ELSE IF raw.src = "dataset"
         THEN Typed(ContentCreate("https://huggingface.co/datasets/" \o raw.id, raw.id),
                    raw.src, huggingface_tags(raw))
    ELSE Typed(ContentCreate("https://huggingface.co/" \o raw.id, raw.id),
               raw.src, huggingface_tags(raw))

\* CivitaiIndexer.parse_content; tags[:10], then "checkpoint" or "lora" is
\* inserted in front; a missing type is "Checkpoint"
civitai_tags(raw) ==
    Sliced(TagsOr(raw, 0), TagCap)
        + (IF Get(raw.type, "Checkpoint") \in {"Checkpoint", "LORA"} THEN 1 ELSE 0)
civitai_parse_content(raw) ==
    IF raw.empty THEN NoContent
    ELSE Typed(ContentCreate("https://civitai.com/models/" \o Get(raw.id, "0"),
                             Get(raw.title, "Unknown Model")),
               "artwork", civitai_tags(raw))

\* YouTubeIndexer.parse_content; ["video", "ai"] and up to three words of _query
youtube_tags(raw) == Sliced(2 + Sliced(TagsOr(raw, 0), 3), TagCap)
youtube_parse_content(raw) ==
    IF raw.empty THEN NoContent
    ELSE IF raw.id = "" THEN NoContent
    ELSE Typed(ContentCreate("https://www.youtube.com/watch?v=" \o raw.id,
                             Get(raw.title, "Untitled Video")),
               "video", youtube_tags(raw))

\* RedditIndexer.parse_content; ["reddit", subreddit] and the flair if any
reddit_tags(raw) == Sliced(2 + (IF TagsOr(raw, 0) > 0 THEN 1 ELSE 0), TagCap)
reddit_parse_content(raw) ==
    IF raw.empty THEN NoContent
    ELSE IF ~raw.keyword THEN NoContent
    ELSE Typed(ContentCreate("https://reddit.com" \o raw.id, raw.title),
               "post", reddit_tags(raw))

\* ArxivIndexer.parse_content; categories[:5] (["research"] when missing) and
\* "paper"
arxiv_tags(raw) == Sliced(TagsOr(raw, 1), ArxivTagCap) + 1
arxiv_parse_content(raw) ==
    IF raw.empty \/ raw.id = "" THEN NoContent
    ELSE IF ~raw.keyword THEN NoContent
    ELSE Typed(ContentCreate("https://arxiv.org/abs/" \o raw.id, raw.title),
               "research", arxiv_tags(raw))

\* DynamicWebIndexer._parse_hackernews
parse_hackernews(raw) ==
    Typed(ContentCreate(Get(raw.id, "https://news.ycombinator.com/item?id=None"),
                        raw.title),
          "post", 3)
\* DynamicWebIndexer._parse_devto; tags[:10] if tags else ["dev"]
devto_tags(raw) == IF TagsOr(raw, 1) = 0 THEN 1 ELSE Sliced(TagsOr(raw, 1), TagCap)
parse_devto(raw) == Typed(ContentCreate(raw.id, raw.title), "document", devto_tags(raw))
\* DynamicWebIndexer._parse_medium
parse_medium(raw) == Typed(ContentCreate(raw.id, raw.title), "document", 3)

\* DynamicWebIndexer.parse_content
dynamic_parse_content(raw) ==
    IF raw.empty THEN NoContent
    ELSE IF raw.src = "hackernews" THEN parse_hackernews(raw)
    ELSE IF raw.src = "devto" THEN parse_devto(raw)
    ELSE IF raw.src = "medium" THEN parse_medium(raw)
    ELSE NoContent

\* WebSearchIndexer.parse_content: the content type from the URL
websearch_content_type(raw) ==
    IF raw.host \in {"youtube.com", "vimeo.com"} THEN "video"
    ELSE IF raw.host = "github.com" THEN "code"
    ELSE IF raw.host = "arxiv.org" THEN "research"
    ELSE IF raw.host \in {"medium.com", "blog"} THEN "document"
    ELSE "post"

\* WebSearchIndexer.parse_content; tags=[query, source, content_type]
websearch_parse_content(raw) ==
    IF raw.empty THEN NoContent
    ELSE IF raw.id = "" \/ raw.title = "" THEN NoContent
    ELSE Typed(ContentCreate(raw.id, raw.title), websearch_content_type(raw), 3)

\* MoltbookIndexer._parse_moltbook; tags=data.get("tags", ["agent", "post"])
parse_moltbook(raw) ==
    Typed(ContentCreate(Get(raw.id, ""), Get(raw.title, "")), "post", TagsOr(raw, 2))
\* MoltbookIndexer._parse_bluesky
parse_bluesky(raw) ==
    Typed(ContentCreate("https://bsky.app/profile/" \o Get(raw.id, "unknown"),
                        Get(raw.title, "Bluesky post")),
          "post", 3)
\* MoltbookIndexer._parse_twitter
parse_twitter(raw) ==
    Typed(ContentCreate(Get(raw.id, "https://x.com/unknown"),
                        Get(raw.title, "Post by @unknown")),
          "post", 3)

\* MoltbookIndexer.parse_content
moltbook_parse_content(raw) ==
    IF raw.empty THEN NoContent
    ELSE IF raw.src = "bluesky" THEN parse_bluesky(raw)
    ELSE IF raw.src = "twitter" THEN parse_twitter(raw)
    ELSE parse_moltbook(raw)

InitParse ==
    /\ InitRun
    /\ FetchOff
    /\ p_pc = "input"
    /\ p_collector \in Registered
    /\ p_raw \in RawDataOf(p_collector)
    /\ p_result = NoContent

\* parse_content of collector c returns res
ParseReturns(c, res) ==
    /\ p_pc = "input"
    /\ p_collector = c
    /\ p_result' = res
    /\ p_pc' = "done"
    /\ UNCHANGED <<p_collector, p_raw, runvars, fvars>>

ParseGitHub == ParseReturns("github", github_parse_content(p_raw))
ParseHuggingFace == ParseReturns("huggingface", huggingface_parse_content(p_raw))
ParseCivitai == ParseReturns("civitai", civitai_parse_content(p_raw))
ParseYouTube == ParseReturns("youtube", youtube_parse_content(p_raw))
ParseReddit == ParseReturns("reddit", reddit_parse_content(p_raw))
ParseArxiv == ParseReturns("arxiv", arxiv_parse_content(p_raw))
ParseDynamic == ParseReturns("dynamic", dynamic_parse_content(p_raw))
ParseWebSearch == ParseReturns("websearch", websearch_parse_content(p_raw))
ParseMoltbook == ParseReturns("moltbook", moltbook_parse_content(p_raw))

NextParse ==
    \/ ParseGitHub
    \/ ParseHuggingFace
    \/ ParseCivitai
    \/ ParseYouTube
    \/ ParseReddit
    \/ ParseArxiv
    \/ ParseDynamic
    \/ ParseWebSearch
    \/ ParseMoltbook

SpecParse == InitParse /\ [][NextParse]_vars

\* ------------------------------------------------------------ properties
TypeOK ==
    /\ pc \in {"idle", "fetch", "process", "rollback", "returned", "raised"}
    /\ stats.indexed + stats.skipped + stats.errors <= Len(raw_items)

\* record j of the current run is an item with a non-empty source_url that the
\* previous run wrote and committed, nothing having written to the catalog since
SecondIngest(j) ==
    /\ j \in 1..Len(raw_items)
    /\ raw_items[j].kind = "item"
    /\ raw_items[j].source_url # NoUrl
    /\ Row(raw_items[j]) \in written

\* C1: an item the previous run wrote is skipped as a duplicate by the next run
\* (unless a statement of that run fails), the catalog keeps exactly one row
\* with its source_url, and a run over that item alone returns indexed=0,
\* skipped=1
DedupIdempotence ==
    /\ \A j \in 1..Len(outcomes) :
         (SecondIngest(j) /\ ~flush_failed) =>
             /\ outcomes[j] = "skipped"
             /\ UrlCount(tx_contents, raw_items[j].source_url) = 1
             /\ UrlCount(contents, raw_items[j].source_url) = 1
    /\ (pc = "returned" /\ result.kind = "stats" /\ ~flush_failed
        /\ Len(raw_items) = 1 /\ SecondIngest(1)) =>
             /\ result.indexed = 0
             /\ result.skipped = 1
             /\ UrlCount(contents, raw_items[1].source_url) = 1

\* C1 witness: the second run over the same single item has returned
DedupIdempotenceWitness ==
    /\ pc = "returned"
    /\ result.kind = "stats"
    /\ Len(raw_items) = 1
    /\ SecondIngest(1)
    /\ outcomes = <<"skipped">>
    /\ result.skipped = 1

\* C2: no two committed agent_contents rows share a non-empty source_url
UniqueSourceUrl ==
    \A u \in Urls \ {NoUrl} : UrlCount(contents, u) <= 1

\* number of items of the fetched list whose row key is r
BatchCount(r) ==
    Cardinality({j \in 1..Len(raw_items) :
                   raw_items[j].kind = "item" /\ Row(raw_items[j]) = r})

\* parse_content raises on exactly one record, every other record is an item
\* whose source_url is neither in the catalog nor twice in the list
OneThrowsRestNew ==
    /\ Cardinality({j \in 1..Len(raw_items) : raw_items[j].kind = "throws"}) = 1
    /\ \A j \in 1..Len(raw_items) :
         \/ raw_items[j].kind = "throws"
         \/ /\ raw_items[j].kind = "item"
            /\ \/ raw_items[j].source_url = NoUrl
               \/ /\ UrlCount(contents_before, raw_items[j].source_url) = 0
                  /\ \A k \in 1..Len(raw_items) :
                       (k # j /\ raw_items[k].kind = "item")
                          => raw_items[k].source_url # raw_items[j].source_url

\* the run came back with statistics and no fetch, statement or commit failure
CleanRun ==
    /\ pc = "returned"
    /\ result.kind = "stats"
    /\ ~fetch_raised
    /\ ~commit_raised
    /\ ~flush_failed

\* C3: when parse_content raises on exactly one record of a list whose other
\* records are valid and new, the run returns errors=1, skipped=0,
\* indexed = length - 1, and every valid item is committed
PartialFailureIsolation ==
    (CleanRun /\ OneThrowsRestNew) =>
        /\ result.errors = 1
        /\ result.skipped = 0
        /\ result.indexed = Len(raw_items) - 1
        /\ \A r \in Rows : contents[r] = contents_before[r] + BatchCount(r)

\* C3 witness: a list of three whose second record raises, after the run
PartialFailureIsolationWitness ==
    /\ CleanRun
    /\ OneThrowsRestNew
    /\ Len(raw_items) = 3
    /\ raw_items[2].kind = "throws"
    /\ result.indexed = 2

\* C4: a run whose fetch raised returns an error-tagged result with indexed=0,
\* commits nothing and leaves the watermark of its platform as it was
FetchFailureAtomicity ==
    (pc = "returned" /\ fetch_raised) =>
        /\ result.kind = "error"
        /\ result.indexed = 0
        /\ contents = contents_before
        /\ agents = agents_before
        /\ last_run_get(last_run, platform) = wm_before

\* C5: a run whose commit raised rolls back all its writes, reports the failure
\* in its result and leaves the watermark of its platform as it was
CommitFailureAtomicity ==
    (pc = "returned" /\ commit_raised) =>
        /\ contents = contents_before
        /\ agents = agents_before
        /\ result.kind = "error"
        /\ last_run_get(last_run, platform) = wm_before

\* agent a owns exactly two committed rows, with different source_urls
TwoItemsOf(a) ==
    /\ AgentCount(contents, a) = 2
    /\ Cardinality({r \in Rows : r[2] = a /\ contents[r] = 1}) = 2

\* C6: an agent to which two items with different source_urls are attributed
\* has one agents row, with total_creations = 2
AgentReuse ==
    \A a \in AgentIds :
        TwoItemsOf(a) => (a \in DOMAIN agents /\ agents[a] = 2)

\* C6 witness: one run wrote two items of a so far unseen agent and committed
AgentReuseWitness ==
    /\ CleanRun
    /\ result.indexed = 2
    /\ \E a \in AgentIds :
         /\ a \notin DOMAIN agents_before
         /\ TwoItemsOf(a)
         /\ \A r \in WrittenRows : r[2] = a /\ r[1] # NoUrl

AbsentChangesNothing ==
    [][(pc = "process" /\ i <= Len(raw_items) /\ raw_items[i].kind = "absent") =>
          /\ stats' = stats
          /\ tx_contents' = tx_contents
          /\ tx_agents' = tx_agents
          /\ contents' = contents
          /\ agents' = agents
          /\ i' = i + 1
          /\ pc' = "process"]_vars

\* C9 witness: an absent record was passed and another record follows
AbsentChangesNothingWitness ==
    /\ pc = "process"
    /\ i > 1
    /\ i <= Len(raw_items)
    /\ raw_items[i - 1].kind = "absent"
    /\ outcomes[i - 1] = "absent"
    /\ stats = ZeroStats

\* number of records in the 200 bodies of resp
RECURSIVE OkTotal(_, _)
OkTotal(resp, k) ==
    IF k > Len(resp) THEN 0
    ELSE (IF resp[k].status = 200 THEN resp[k].n ELSE 0) + OkTotal(resp, k + 1)

\* C8: fetch_content of every aggregating collector returns at most limit
\* records, whatever the sub-sources returned; the Reddit collector, when not
\* rate limited, returns exactly min(limit, records received)
LimitBound ==
    (f_pc = "done") =>
        /\ Len(f_items) <= f_limit
        /\ (f_collector = "reddit" /\ \A k \in 1..NumSub : f_resp[k].status # 429)
              => Len(f_items) = Min(f_limit, OkTotal(f_resp, 1))

\* C8 witness: two subreddits answered three posts each, limit is 4, and
\* fetch_content returned four records
LimitBoundWitness ==
    /\ f_pc = "done"
    /\ f_collector = "reddit"
    /\ f_limit = 4
    /\ f_resp[1] = Resp(200, 3, FALSE)
    /\ f_resp[2] = Resp(200, 3, FALSE)
    /\ \A k \in 3..NumSub : f_resp[k].status = 0
    /\ Len(f_items) = 4

\* C10: parse_content of every collector returns None for a raw record that
\* lacks its identity/URL field and its title
AbsentWithoutIdentity ==
    (p_pc = "done" /\ p_raw.id = "" /\ p_raw.title = "") => p_result.kind = "None"

\* C11: a run_indexer call never lets an exception out: it ends by returning
\* statistics or an error payload; and every entry of what run_all_indexers
\* returns is statistics or an error payload
StructuredResult ==
    /\ (caller = "trigger" /\ pc \in {"returned", "raised"}) =>
          (pc = "returned" /\ result.kind \in {"stats", "error"})
    /\ (ra_pc = "done") =>
          \A p \in DOMAIN results : results[p].kind \in {"stats", "error"}

\* C12: a run whose only upstream request failed (no 200 answer) returns a
\* result that carries an error entry, unlike the plain statistics of a run
\* whose upstream answered 200 with no items
OnlyFetchFailedIsError ==
    (pc = "returned" /\ f_pc = "done" /\ f_resp[1].status # 200) =>
        (result.kind = "error" \/ result.errors > 0)

\* C13: while the platform of the current request is not a registered id, no
\* step runs a collector (the call is over at once), writes a catalog row or
\* creates or changes a watermark entry; what run_indexer returns is the
\* error payload, and what trigger_index answers is HTTP 400
UnknownRejected ==
    [][(platform' # "None" /\ platform' \notin Registered) =>
          /\ pc' \in {"returned", "raised"}
          /\ contents' = contents
          /\ agents' = agents
          /\ tx_contents' = tx_contents
          /\ last_run' = last_run
          /\ stats' = ZeroStats
          /\ (pc' = "returned" /\ caller' = "trigger") => result' = ErrorResult
          /\ (caller' = "http") => (pc' = "returned" /\ result' = Http400)]_vars

\* C13 witness: after a completed github run, run_indexer of an unregistered
\* id returned the error payload
UnknownRejectedWitness ==
    /\ pc = "returned"
    /\ platform = "tiktok"
    /\ caller = "trigger"
    /\ result = ErrorResult
    /\ DOMAIN last_run = {"github"}

\* C14: a run starts with since equal to the watermark entry of its platform
\* (None when there is none), and a step changes the watermarks only by setting
\* the entry of the run's platform to the current time, in a run whose fetch
\* and commit did not fail
WatermarkOnlyOnCompleted ==
    [][/\ (pc = "idle" /\ pc' = "fetch") => since' = last_run_get(last_run, platform')
       /\ (last_run' # last_run) =>
             /\ last_run' = (platform :> now) @@ last_run
             /\ ~fetch_raised'
             /\ ~commit_raised']_vars

\* C15: start() on a started scheduler and stop() on a stopped one change
\* nothing; the underlying scheduler runs exactly when the latest call that had
\* an effect was start(); self.running agrees with it; no job is in the store
\* twice
LifecycleIdempotent ==
    /\ [](sched_running <=> (last_call = "start"))
    /\ [](running = sched_running)
    /\ [](\A j \in DOMAIN jobs : jobs[j] = 1)
    /\ [][(n_calls' # n_calls /\ last_call' = "start" /\ sched_running) =>
            UNCHANGED <<running, sched_running, jobs, dbvars, pc, platform,
                        raw_items, i, stats, last_run>>]_vars
    /\ [][(n_calls' # n_calls /\ last_call' = "stop" /\ ~sched_running) =>
            UNCHANGED <<running, sched_running, jobs, dbvars, pc, platform,
                        raw_items, i, stats, last_run>>]_vars

\* C15 witness: start, stop and start again, all jobs registered, and a job ran
LifecycleIdempotentWitness ==
    /\ n_calls = 3
    /\ last_call = "start"
    /\ sched_running
    /\ DOMAIN jobs = {JobArgs[k] : k \in 1..Len(JobArgs)}
    /\ DOMAIN last_run # {}

\* the collectors that react to a rate-limit status
RateLimited == {"reddit", "github", "youtube"}

\* C16: when answer k to a request of a rate-limit handling collector has
\* status 429 or 403, request k is the last one the collector sent, and
\* fetch_content returns the records of the 200 answers before it, cut to limit
RateLimitStops ==
    (f_pc = "done" /\ f_collector \in RateLimited) =>
        \A k \in 1..f_sent :
            (f_resp[k].status \in {429, 403}) =>
                /\ f_sent = k
                /\ Len(f_items) = Min(f_limit, OkTotal(SubSeq(f_resp, 1, k - 1), 1))

\* fetch_content of collector c
fetch_content_of(c, limit, resp, key) ==
    IF c = "reddit" THEN reddit_fetch_content(limit, resp)
    ELSE IF c = "github" THEN github_fetch_content(limit, resp)
    ELSE IF c = "youtube" THEN youtube_fetch_content(limit, resp, key)
    ELSE IF c = "dynamic" THEN dynamic_fetch_content(limit, resp)
    ELSE IF c = "websearch" THEN websearch_fetch_content(limit, resp)
    ELSE IF c = "moltbook" THEN moltbook_fetch_content(limit, resp)
    ELSE huggingface_fetch_content(limit, resp)

\* the answers with every raised or timed-out request replaced by an answer
\* that carries no records (a 500)
Healed(resp) ==
    [k \in DOMAIN resp |->
        IF resp[k].status = 0 THEN Resp(500, 0, FALSE) ELSE resp[k]]

\* C17: whatever sub-fetches raise or time out, fetch_content returns (it does
\* not raise), every record it returns is of a sub-fetch that answered 200, the
\* list is the one it returns when the failed sub-fetches answer with no
\* records instead, at most limit long, and it is empty when all of them fail
SubFetchIsolation ==
    (f_pc = "done") =>
        /\ \A j \in 1..Len(f_items) : f_resp[f_items[j][1]].status = 200
        /\ f_items = fetch_content_of(f_collector, f_limit, Healed(f_resp), f_key)
        /\ Len(f_items) <= f_limit
        /\ (\A k \in 1..NumSub : f_resp[k].status = 0) => f_items = <<>>

\* C17 witness: the Hacker News request of the dynamic collector and one
\* Medium feed raised, the Dev.to requests answered, and their records are
\* returned
SubFetchIsolationWitness ==
    /\ f_pc = "done"
    /\ f_collector = "dynamic"
    /\ f_resp[1].status = 0
    /\ f_resp[4].status = 0
    /\ f_resp[2] = Resp(200, 2, FALSE)
    /\ f_resp[3] = Resp(200, 1, FALSE)
    /\ f_limit = MaxLimit
    /\ Len(f_items) >= 3

\* the run_indexer call of task t is in progress
InProgress(t) == c_pc[t] \notin {"idle", "done"}

\* C18: two runs of the same platform are never in progress at once
SerializedRuns ==
    \A t \in Tasks :
        (InProgress(t) /\ InProgress(Other(t))) => c_platform[t] # c_platform[Other(t)]

\* C19: when both concurrent runs are over, no two committed agent_contents
\* rows share a non-empty source_url
ConcurrentUniqueUrl ==
    (\A t \in Tasks : c_pc[t] = "done") =>
        \A u \in ConcUrls \ {NoUrl} : UrlCount(contents, u) <= 1

\* C20: at no time do two agents rows, committed or inserted by a session in
\* progress, have the same agent_id
ConcurrentAgentUnique ==
    \A a \in AgentIds :
        agent_rows[a] + Cardinality({t \in Tasks : a \in c_created[t]}) <= 1

\* C20 witness: both runs had one item of the same unseen agent and reached the
\* insert together; one wrote its item, the other counted an error, and one
\* agents row exists
ConcurrentAgentUniqueWitness ==
    /\ \A t \in Tasks : c_pc[t] = "done" /\ Len(c_items[t]) = 1
    /\ c_items[1][1].agent_id_external = c_items[2][1].agent_id_external
    /\ c_items[1][1].source_url = NoUrl
    /\ c_items[2][1].source_url = NoUrl
    /\ c_stats[1].indexed = 1
    /\ c_stats[2].errors = 1
    /\ agent_rows[c_items[1][1].agent_id_external] = 1

\* the item task t is about to insert an agent for
FlushAgent(t) == c_items[t][c_i[t]].agent_id_external

\* C21: an insert of an agent that meets a committed row with the same
\* agent_id is recovered: the item is written and no error is counted
ConflictRecovered ==
    [][\A t \in Tasks :
          (/\ c_pc[t] = "flush"
           /\ agent_rows[FlushAgent(t)] >= 1
           /\ c_pc'[t] # "flush")
          => /\ c_stats'[t].errors = c_stats[t].errors
             /\ c_stats'[t].indexed = c_stats[t].indexed + 1]_vars

\* total_creations of the committed agents row of a, 0 when there is none
TotalCreations(a) == IF a \in DOMAIN agents THEN agents[a] ELSE 0

\* C22: in every committed state, total_creations of each agent is the number
\* of agent_contents rows of that agent
CreationsMatchRows ==
    \A a \in AgentIds : TotalCreations(a) = AgentCount(contents, a)

\* C23: the commit of a run raises total_creations of every agent that existed
\* by the number of rows of that agent the run wrote, whatever was committed
\* since the run read the agent
NoLostIncrement ==
    [][\A t \in Tasks :
          (c_pc[t] = "commit" /\ c_pc'[t] = "done") =>
              \A a \in DOMAIN agents :
                  agents'[a] = agents[a] + AgentCount(c_rows[t], a)]_vars

\* C24: when a statement of index_content raised during a run, the rows the
\* run wrote for its other items are committed once the run has returned
ErrorKeepsWrittenItems ==
    (pc = "returned" /\ flush_failed) =>
        \A r \in Rows : contents[r] >= contents_before[r] + WrittenBag[r]

\* the current run has not passed a successful commit
BeforeCommit ==
    \/ pc \in {"fetch", "process", "rollback"}
    \/ pc = "returned" /\ (fetch_raised \/ commit_raised \/ rollback_raised)

\* C25: until a run's commit has succeeded the committed agents and
\* agent_contents rows are those of the start of the run, and they still are
\* when the run is abandoned (stop() while it is in progress) or has ended in
\* rollback
NoWriteBeforeCommit ==
    /\ [](BeforeCommit => (contents = contents_before /\ agents = agents_before))
    /\ [][(pc \in {"fetch", "process", "rollback"} /\ pc' = "idle")
             => (contents' = contents_before /\ agents' = agents_before)]_vars

\* C25 witness: the run wrote an item of a so far unseen agent into its
\* session and its commit raised
NoWriteBeforeCommitWitness ==
    /\ pc = "returned"
    /\ commit_raised
    /\ Len(outcomes) = 1
    /\ outcomes[1] = "written"
    /\ raw_items[1].agent_id_external \notin DOMAIN agents
    /\ contents = contents_before

\* the step processes a record with outcome "skipped"
SkipStep ==
    /\ Len(outcomes') = Len(outcomes) + 1
    /\ outcomes'[Len(outcomes')] = "skipped"

\* every record of the returned run was skipped as a duplicate
AllSkipped ==
    /\ CleanRun
    /\ Len(raw_items) >= 1
    /\ \A j \in 1..Len(raw_items) : outcomes[j] = "skipped"

\* C26: a record skipped as a duplicate changes neither the rows nor the
\* agents, in the session and committed, and counts as skipped only; a run
\* that skipped all its records commits the catalog it started with
DuplicateChangesNothing ==
    /\ [][SkipStep =>
            /\ tx_contents' = tx_contents
            /\ tx_agents' = tx_agents
            /\ contents' = contents
            /\ agents' = agents
            /\ stats' = [stats EXCEPT !.skipped = @ + 1]]_vars
    /\ [](AllSkipped => (contents = contents_before /\ agents = agents_before))

\* C26 witness: the run skipped a duplicate whose agent_id_external has no
\* agents row, and committed
DuplicateChangesNothingWitness ==
    /\ AllSkipped
    /\ Len(raw_items) = 1
    /\ raw_items[1].agent_id_external \notin DOMAIN agents
    /\ result.skipped = 1

\* C27: an item whose source_url is on at least one row of the catalog the
\* run started with is counted as skipped, however many rows have it (no
\* statement of the run having failed)
DuplicateNeverError ==
    \A j \in 1..Len(outcomes) :
        (/\ raw_items[j].kind = "item"
         /\ raw_items[j].source_url # NoUrl
         /\ UrlCount(contents_before, raw_items[j].source_url) >= 1
         /\ ~flush_failed)
        => outcomes[j] = "skipped"

\* every record of the returned run is an item without source_url
AllWithoutUrl ==
    /\ CleanRun
    /\ Len(raw_items) >= 1
    /\ \A j \in 1..Len(raw_items) :
         raw_items[j].kind = "item" /\ raw_items[j].source_url = NoUrl

\* number of fetched items attributed to agent a
BatchOf(a) ==
    Cardinality({j \in 1..Len(raw_items) :
                   raw_items[j].kind = "item" /\ raw_items[j].agent_id_external = a})

\* total_creations of a in the agents the run started with, 0 when not there
TotalBefore(a) == IF a \in DOMAIN agents_before THEN agents_before[a] ELSE 0

\* C28: every item without source_url is written, whatever the catalog holds:
\* a run over n such items returns indexed = n, adds one row per item and
\* raises total_creations of each agent by the number of its items
NoUrlAlwaysWritten ==
    /\ \A j \in 1..Len(outcomes) :
         (raw_items[j].kind = "item" /\ raw_items[j].source_url = NoUrl
          /\ ~flush_failed) => outcomes[j] = "written"
    /\ AllWithoutUrl =>
         /\ result.indexed = Len(raw_items)
         /\ result.skipped = 0
         /\ \A r \in Rows : contents[r] = contents_before[r] + BatchCount(r)
         /\ \A a \in AgentIds : TotalCreations(a) = TotalBefore(a) + BatchOf(a)

\* C28 witness: the same item without source_url three times in one run, all
\* three written and committed
NoUrlAlwaysWrittenWitness ==
    /\ AllWithoutUrl
    /\ Len(raw_items) = 3
    /\ raw_items[1] = raw_items[2]
    /\ raw_items[2] = raw_items[3]
    /\ result.indexed = 3
    /\ contents[Row(raw_items[1])] = contents_before[Row(raw_items[1])] + 3

\* run_all_indexers starts the run of a platform
RunAllStartsRun == pc = "idle" /\ pc' # "idle" /\ caller' = "run_all"

\* C29: run_all_indexers starts the runs one at a time in the order of its
\* list, each after the run before it is over and the pause has been slept
SequentialWithPause ==
    [][RunAllStartsRun =>
          /\ platform' = platforms[ra_i]
          /\ DOMAIN results = {platforms[k] : k \in 1..(ra_i - 1)}
          /\ (ra_i > 1 => ra_paused)]_vars

\* C30: the watermark stored by a run that fetched, processed and committed
\* without failure is not later than the time of its fetch
WatermarkNotAfterFetch ==
    (CleanRun /\ fetched_at # None) =>
        last_run_get(last_run, platform) <= fetched_at

\* models/entity.py, ContentType: the ten values
ContentType == {"document", "video", "post", "code", "artwork", "music",
                "research", "conversation", "dataset", "simulation"}

\* C32: the content_type of every item a parse_content returns is one of the
\* ten values of ContentType
ContentTypeInEnum ==
    (p_pc = "done" /\ p_result.kind = "item") => p_result.content_type \in ContentType

\* C33: every item a parse_content returns has at most 10 tags
AtMostTenTags ==
    (p_pc = "done" /\ p_result.kind = "item") => p_result.tags <= TagCap

\* C34: the websearch collector makes a URL of youtube.com or vimeo.com a
\* video, of github.com code, of arxiv.org research, and every other URL a post
WebSearchContentType ==
    (p_pc = "done" /\ p_collector = "websearch" /\ p_result.kind = "item") =>
        p_result.content_type =
            (IF p_raw.host \in {"youtube.com", "vimeo.com"} THEN "video"
             ELSE IF p_raw.host = "github.com" THEN "code"
             ELSE IF p_raw.host = "arxiv.org" THEN "research"
             ELSE "post")

\* the run is between the start of its fetch and its return
RunInProgress == pc \in {"fetch", "process", "rollback"}

\* the run is over without fetch or commit failure: what its session held is
\* committed
Completed ==
    /\ ~fetch_raised
    /\ ~commit_raised
    /\ contents = tx_contents
    /\ agents = tx_agents

\* the run is over after a fetch or commit failure: the catalog is the one it
\* started with
FailedAtomically ==
    /\ fetch_raised \/ commit_raised
    /\ contents = contents_before
    /\ agents = agents_before

\* C31: every run that started its fetch comes to its end, whatever fails on
\* the way, and at its end it is either completed or failed atomically
RunTerminates ==
    /\ RunInProgress ~> (pc = "returned")
    /\ [](pc = "returned" /\ caller = "await" /\ result.kind # "none" /\ fetched_at # None
            => (Completed \/ FailedAtomically))
    /\ [][RunInProgress => (pc' # pc \/ i' = i + 1 \/ pc' = "idle")]_<<pc, i>>

\* C31 witness: a run of two records, the first throwing at parse, the second
\* failing in the database, whose commit raised, has returned
RunTerminatesWitness ==
    /\ pc = "returned"
    /\ caller = "await"
    /\ outcomes = <<"throws", "error">>
    /\ commit_raised
    /\ FailedAtomically

\* C35: fetch_content of the single-request collectors returns at most limit
\* records, whatever number of records the upstream answer holds
EveryFetchBounded ==
    (f_pc = "done" /\ f_collector \in SingleRequest) => Len(f_items) <= f_limit

\* C36: a run whose writes were rolled back (fetch failure, commit failure, or
\* a failed flush that left the transaction invalid) returns indexed = 0
IndexedIsDurable ==
    (pc = "returned" /\ result.kind = "stats"
     /\ (fetch_raised \/ commit_raised \/ flush_failed)
     /\ contents = contents_before)
        => result.indexed = 0

\* indexed + skipped + errors of statistics st
CounterSum(st) == st.indexed + st.skipped + st.errors

\* number of the first k fetched records for which parse_content returned None
AbsentAmong(k) ==
    Cardinality({j \in 1..k : raw_items[j].kind = "absent"})

\* C37: every fetched record is counted at most once: during the loop the sum
\* of the three counters is the number of records processed so far minus those
\* parse_content returned None for, hence at most the number processed; the
\* statistics run() returns sum up to the fetched records minus the absent ones
OneCounterPerRecord ==
    /\ (pc = "process") =>
          /\ CounterSum(stats) <= i - 1
          /\ CounterSum(stats) = (i - 1) - AbsentAmong(i - 1)
    /\ (pc = "returned" /\ result.kind = "stats") =>
          CounterSum(result) = Len(raw_items) - AbsentAmong(Len(raw_items))

\* C37 witness: a run over three records, one raising, one absent and one
\* written, has returned a sum of two
OneCounterPerRecordWitness ==
    /\ pc = "returned"
    /\ result.kind = "stats"
    /\ outcomes = <<"throws", "absent", "written">>
    /\ CounterSum(result) = 2

\* the platforms of the run_indexer calls in progress
RunningPlatforms == {platform} \cup {c_platform[t] : t \in DOMAIN c_platform}

\* C38: no step removes a watermark entry or lowers it, and a step that changes
\* the watermarks changes the entry of one platform, the platform of a
\* run_indexer call in progress, and no other entry
WatermarkFrame ==
    [][/\ DOMAIN last_run \subseteq DOMAIN last_run'
       /\ \A p \in DOMAIN last_run : last_run'[p] >= last_run[p]
       /\ (last_run' # last_run) =>
             \E q \in RunningPlatforms :
                 /\ q \in DOMAIN last_run'
                 /\ \A p \in Registered \ {q} :
                      /\ (p \in DOMAIN last_run') = (p \in DOMAIN last_run)
                      /\ last_run_get(last_run', p) = last_run_get(last_run, p)]_vars

\* C38 witness: the github run returned at time 1, the reddit run started
\* after it and returned at time 2, and the github entry is still 1
WatermarkFrameWitness ==
    /\ c_pc = <<"done", "done">>
    /\ c_platform = <<"github", "reddit">>
    /\ last_run = ("github" :> 1) @@ ("reddit" :> 2)

\* C39: get_indexer has a collector for every id trigger_index accepts, for
\* every platform of the run_all_indexers list and for the platform of every
\* scheduled job; and a run_indexer call with such an id never returns the
\* "Unknown platform" payload at once
SourceIdsConsistent ==
    [][/\ \A p \in valid_platforms : get_indexer(p) = p
       /\ \A k \in 1..Len(platforms) : get_indexer(platforms[k]) = platforms[k]
       /\ \A k \in 1..Len(JobArgs) : get_indexer(JobArgs[k]) = JobArgs[k]
       /\ (pc = "idle" /\ pc' = "returned" /\ caller' # "http") =>
             /\ platform' \notin valid_platforms
             /\ caller' \notin {"run_all", "job"}]_vars

\* C39 witness: the on-demand run of an id that trigger_index accepts found
\* its collector, ran and returned statistics
SourceIdsConsistentWitness ==
    /\ pc = "returned"
    /\ caller = "trigger"
    /\ platform \in valid_platforms
    /\ get_indexer(platform) = platform
    /\ result.kind = "stats"
    /\ n_fetched > 0

====
